---- MODULE Spec2Model ----
(***************************************************************************)
(* ColorHandler (package logger): a slog.Handler that renders one record   *)
(* as one line, with handlers derived by WithGroup / WithAttrs.            *)
(*                                                                         *)
(* Go slices are modelled as headers [arr, len, cap] over a heap of        *)
(* backing arrays, so that sharing of a backing array between handlers is  *)
(* something the model can exhibit.  A rendered line is a sequence of      *)
(* string tokens whose concatenation is the byte string written.           *)
(***************************************************************************)
EXTENDS Integers, Sequences, FiniteSets, TLC

VARIABLES
    handlers,   \* sequence of *ColorHandler objects; index = identity, 1 = root
    mu,         \* mu[h]: holder of handler h's sync.Mutex, 0 when unlocked
    gheap,      \* backing arrays of []string (groups)
    aheap,      \* backing arrays of []slog.Attr (attrs)
    sink,       \* tokens the shared io.Writer has received, in order
    writing,    \* threads currently inside the sink's Write
    pc,         \* pc[t]: position of goroutine t inside Handle
    call,       \* call[t]: the handler and record of goroutine t's Handle call
    buf,        \* buf[t]: goroutine t's private buffer
    ret,        \* ret[t]: what goroutine t's last Handle returned
    chain,      \* history: chain[h] = names and attrs of the derivations that made h
    hist,       \* history: per-goroutine counters of the current Handle call
    last,       \* history: the last WithGroup, WithAttrs, SetHook, Enabled or
                \*   formatAnyValue call
    ncalls,     \* history: number of Handle calls started in a concurrent run
    used,       \* history: the handlers Handle has been called on
    written     \* history: the calls whose line the sink accepted, in order

vars == <<handlers, mu, gheap, aheap, sink, writing, pc, call, buf, ret,
          chain, hist, last, ncalls, used, written>>

-----------------------------------------------------------------------------
(* Bounds of the model *)

MaxHandlers == 4        \* handlers created in a derivation run (root included)
MaxCalls == 2           \* Handle calls started in a concurrent run
MaxLevel == 9           \* levels dispatched in a formatting run: -MaxLevel..MaxLevel

Threads == {1, 2}       \* goroutines calling Handle
\* the goroutine of a sequential run
MainThread == CHOOSE t \in Threads : \A u \in Threads : t <= u

-----------------------------------------------------------------------------
(* Values of the program *)

NIL == "nil"
HOOK == "hook"                      \* a non-nil func(ctx, r)
Hooks == {NIL, HOOK}

LevelDebug == -4
LevelInfo == 0
LevelWarn == 4
LevelError == 8

StringValue(s) == [kind |-> "String", str |-> s, num |-> 0, group |-> <<>>]
Int64Value(n) == [kind |-> "Int64", str |-> "", num |-> n, group |-> <<>>]
GroupValue(as) == [kind |-> "Group", str |-> "", num |-> 0, group |-> as]
Attr(k, v) == [Key |-> k, Value |-> v]

AttrK1 == Attr("k", StringValue("v"))
AttrK2 == Attr("k", Int64Value(42))
AttrUser == Attr("user", GroupValue(<<Attr("name", StringValue("Alice")),
                                      Attr("id", Int64Value(7))>>))

\* an "any" payload: a Go value with its dynamic type; a string and the
\* message of an error are sequences of characters
StringPayload(cs) == [type |-> "string", chars |-> cs]
ErrorPayload(cs) == [type |-> "error", chars |-> cs]
AnyValue(p) == [kind |-> "Any", str |-> "", num |-> 0, group |-> <<>>, any |-> p]
AttrErr == Attr("err", AnyValue(ErrorPayload(<<"b", "o", "o", "m">>)))

\* the strings formatAnyValue is called with
AnyStrings ==
    { <<"{", "\"", "k", "e", "y", "\"", ":", "\"", "v", "a", "l", "u", "e", "\"", "}">>,
      <<"n", "o", "t", " ", "j", "s", "o", "n">>,
      <<"p", "l", "a", "i", "n", " ", "t", "e", "x", "t">>,
      <<"4", "2">>,
      <<"\"", "h", "e", "l", "l", "o", "\"">>,
      <<"{", "b", "r", "o", "k", "e", "n">>,
      <<>>,
      <<"[", "1", ",", "2", ",", "3", "]">>,
      <<"{", "\"", "a", "\"", ":", "1", "}">>,
      <<"t", "r", "u", "e">>,
      <<" ", "7", " ">>,
      <<"-">>,
      <<"0", "1">>,
      <<"{", "\"", "a", "\"", ":", "1", ",", "}">>,
      <<"n", "u", "l">>,
      <<"[", "]", "x">>,
      <<"1", ".", "5", "e", "3">>,
      <<"\"", "a", "\\", "n", "\"">> }

\* a group without children, and a group nested in a group
AttrEmpty == Attr("e", GroupValue(<<>>))
AttrDeep == Attr("req", GroupValue(<<Attr("id", Int64Value(7)),
                                     Attr("user", GroupValue(<<Attr("name", StringValue("Alice")),
                                                               AttrEmpty>>)),
                                     Attr("n", Int64Value(42))>>))

GroupNames == {"a", "b"}
AttrArgs == {<<>>, <<AttrK1>>, <<AttrK2, AttrUser>>}
SpareChoices == {0, 2}              \* slots append may allocate beyond the need

TestTime == [hour |-> 12, min |-> 30, sec |-> 45]
Record(lvl, msg, as) == [Time |-> TestTime, Level |-> lvl, Message |-> msg, attrs |-> as]
\* the record dispatched in a sequential run: a key twice, a group between
SeqRecords == { Record(LevelError, "m0", <<AttrK1, AttrUser, AttrK2>>) }
\* records dispatched in a concurrent run; 12 is a level above Error
ConcRecords == { Record(LevelWarn, "m1", <<>>),
                 Record(LevelError, "m2", <<>>),
                 Record(12, "m3", <<AttrK2>>) }

\* records dispatched in a formatting run
FmtLevels == (0 - MaxLevel)..MaxLevel
FmtAttrs == {<<>>, <<AttrUser>>, <<AttrEmpty>>, <<AttrEmpty, AttrErr>>,
             <<AttrK1, AttrDeep, AttrK2>>}
FmtRecords == { Record(l, "m", as) : l \in FmtLevels, as \in FmtAttrs }

NoCall == [h |-> 0, r |-> Record(LevelInfo, "", <<>>)]
NoHist == [hookWas |-> NIL, hooked |-> 0, hookArg |-> NoCall.r, hookPanic |-> FALSE,
           hookedAtWrite |-> 0, writes |-> 0, writeErr |-> NIL, lineNo |-> 0,
           afterErr |-> FALSE, afterPanic |-> FALSE, inHookOf |-> 0]
NoOp == [op |-> "none", recv |-> 0, new |-> 0, fn |-> NIL]
RootChain == [parent |-> 0, names |-> <<>>, args |-> <<>>]

-----------------------------------------------------------------------------
(* Go slices *)

EmptySlice == [arr |-> 0, len |-> 0, cap |-> 0]

\* the elements a slice header denotes
View(heap, s) == IF s.len = 0 THEN <<>> ELSE SubSeq(heap[s.arr], 1, s.len)

\* s[:len(s):len(s)]
Clamp(s) == [s EXCEPT !.cap = s.len]

Zeros(n, zero) == [i \in 1..n |-> zero]

\* make([]T, n)
Make(heap, n, zero) ==
    IF n = 0 THEN [heap |-> heap, slice |-> EmptySlice]
    ELSE [heap |-> Append(heap, Zeros(n, zero)),
          slice |-> [arr |-> Len(heap) + 1, len |-> n, cap |-> n]]

\* copy(dst, src), len(dst) = len(src)
Copy(heap, dst, src) ==
    IF dst.len = 0 THEN heap
    ELSE [heap EXCEPT ![dst.arr] =
            [i \in 1..Len(@) |-> IF i <= dst.len THEN heap[src.arr][i] ELSE @[i]]]

\* append(s, elems...): in place when the capacity suffices, else into a new
\* array of capacity len(s)+len(elems)+spare
SliceAppend(heap, s, elems, spare, zero) ==
    LET n == s.len + Len(elems) IN
    IF n <= s.cap
    THEN [heap |-> IF Len(elems) = 0 THEN heap
                   ELSE [heap EXCEPT ![s.arr] =
                           [i \in 1..Len(@) |->
                               IF i > s.len /\ i <= n THEN elems[i - s.len] ELSE @[i]]],
          slice |-> [s EXCEPT !.len = n]]
    ELSE [heap |-> Append(heap, View(heap, s) \o elems \o Zeros(spare, zero)),
          slice |-> [arr |-> Len(heap) + 1, len |-> n, cap |-> n + spare]]

-----------------------------------------------------------------------------
(* Construction and derivation *)

NewColorHandler ==
    [Writer |-> "w", HookFn |-> NIL, groups |-> EmptySlice, attrs |-> EmptySlice]

Groups(h) == View(gheap, handlers[h].groups)
Attrs(h) == View(aheap, handlers[h].attrs)

\* the groups slice WithGroup gives the new handler, and the heap after it
WithGroupSlice(heap, s, name, spare) ==
    LET m == Make(heap, s.len, "")
        c == Copy(m.heap, m.slice, s)
    IN  SliceAppend(c, m.slice, <<name>>, spare, "")

\* WithGroup appending to the receiver's own slice and keeping the result in
\* the receiver as well
WithGroupInPlace(h, name, spare) ==
    LET g == SliceAppend(gheap, handlers[h].groups, <<name>>, spare, "") IN
    /\ handlers' = Append([handlers EXCEPT ![h].groups = g.slice],
            [Writer |-> handlers[h].Writer, HookFn |-> handlers[h].HookFn,
             groups |-> g.slice, attrs |-> handlers[h].attrs])
    /\ gheap' = g.heap
    /\ mu' = Append(mu, 0)
    /\ chain' = Append(chain, [parent |-> h, names |-> <<name>>, args |-> <<>>])
    /\ last' = [op |-> "WithGroup", recv |-> h, new |-> Len(handlers) + 1, fn |-> NIL]
    /\ UNCHANGED <<aheap, sink, writing, pc, call, buf, ret, hist, ncalls, used,
                   written>>

WithGroup(h, name, spare) ==
    LET g == WithGroupSlice(gheap, handlers[h].groups, name, spare) IN
    /\ handlers' = Append(handlers,
            [Writer |-> handlers[h].Writer, HookFn |-> handlers[h].HookFn,
             groups |-> g.slice, attrs |-> handlers[h].attrs])
    /\ gheap' = g.heap
    /\ mu' = Append(mu, 0)
    /\ chain' = Append(chain, [parent |-> h, names |-> <<name>>, args |-> <<>>])
    /\ last' = [op |-> "WithGroup", recv |-> h, new |-> Len(handlers) + 1, fn |-> NIL]
    /\ UNCHANGED <<aheap, sink, writing, pc, call, buf, ret, hist, ncalls, used,
                   written>>

\* WithAttrs appending without limiting the capacity of the receiver's slice
WithAttrsSliceUnclamped(heap, s, as, spare) ==
    SliceAppend(heap, s, as, spare, NIL)

\* the attrs slice WithAttrs gives the new handler, and the heap after it
WithAttrsSlice(heap, s, as, spare) ==
    SliceAppend(heap, Clamp(s), as, spare, NIL)

WithAttrs(h, as, spare) ==
    LET a == WithAttrsSlice(aheap, handlers[h].attrs, as, spare) IN
    /\ handlers' = Append(handlers,
            [Writer |-> handlers[h].Writer, HookFn |-> handlers[h].HookFn,
             groups |-> handlers[h].groups, attrs |-> a.slice])
    /\ aheap' = a.heap
    /\ mu' = Append(mu, 0)
    /\ chain' = Append(chain, [parent |-> h, names |-> <<>>, args |-> as])
    /\ last' = [op |-> "WithAttrs", recv |-> h, new |-> Len(handlers) + 1, fn |-> NIL]
    /\ UNCHANGED <<gheap, sink, writing, pc, call, buf, ret, hist, ncalls, used,
                   written>>

\* Enabled filtering out what is below Debug
EnabledFromDebug(hd, level) == level >= LevelDebug

\* Enabled
Enabled(hd, level) == TRUE

\* a call of Enabled on handler h; its result is kept in last
EnabledCall(h, level) ==
    /\ last' = [op |-> "Enabled", recv |-> h, new |-> 0, fn |-> NIL,
                level |-> level, result |-> Enabled(handlers[h], level)]
    /\ UNCHANGED <<handlers, mu, gheap, aheap, sink, writing, pc, call, buf, ret,
                   chain, hist, ncalls, used, written>>

-----------------------------------------------------------------------------
(* Formatting *)

Digit == <<"0", "1", "2", "3", "4", "5", "6", "7", "8", "9">>

RECURSIVE Decimal(_)
\* %v of a non-negative integer
Decimal(n) == IF n < 10 THEN <<Digit[n + 1]>>
              ELSE Decimal(n \div 10) \o <<Digit[(n % 10) + 1]>>

Pad2(n) == <<Digit[(n \div 10) + 1], Digit[(n % 10) + 1]>>

\* r.Time.Format(time.TimeOnly)
TimeOnly(t) == Pad2(t.hour) \o <<":">> \o Pad2(t.min) \o <<":">> \o Pad2(t.sec)

\* the tag chosen by ranges of levels, as slog.Level.String chooses its name
LevelStrByRange(level) ==
    CASE level < LevelInfo -> "DBG"
      [] level < LevelWarn -> "INF"
      [] level < LevelError -> "WRN"
      [] OTHER -> "ERR"

\* the switch on r.Level
LevelStr(level) ==
    CASE level = LevelDebug -> "DBG"
      [] level = LevelInfo -> "INF"
      [] level = LevelWarn -> "WRN"
      [] level = LevelError -> "ERR"
      [] OTHER -> "???"

\* the printable ASCII characters, from the space (32) to the tilde (126);
\* "grave" stands for the grave accent (96)
Ascii ==
    <<" ", "!", "\"", "#", "$", "%", "&", "'", "(", ")", "*", "+",
      ",", "-", ".", "/", "0", "1", "2", "3", "4", "5", "6", "7",
      "8", "9", ":", ";", "<", "=", ">", "?", "@", "A", "B", "C",
      "D", "E", "F", "G", "H", "I", "J", "K", "L", "M", "N", "O",
      "P", "Q", "R", "S", "T", "U", "V", "W", "X", "Y", "Z", "[",
      "\\", "]", "^", "_", "grave", "a", "b", "c", "d", "e", "f", "g",
      "h", "i", "j", "k", "l", "m", "n", "o", "p", "q", "r", "s",
      "t", "u", "v", "w", "x", "y", "z", "{", "|", "}", "~">>

\* the byte of a character
Byte(c) == 31 + (CHOOSE i \in DOMAIN Ascii : Ascii[i] = c)

Digits == {Digit[i] : i \in DOMAIN Digit}
HexDigits == Digits \cup {"a", "b", "c", "d", "e", "f", "A", "B", "C", "D", "E", "F"}
Whitespace == {" ", "\t", "\n", "\r"}

(* json.Unmarshal's validity scan of a text s; a Scan operator takes the     *)
(* position of the first character of what it scans and gives the position   *)
(* after it, or 0 when the text is not valid there                           *)
RECURSIVE SkipWS(_, _)
SkipWS(s, i) == IF i <= Len(s) /\ s[i] \in Whitespace THEN SkipWS(s, i + 1) ELSE i

RECURSIVE ScanDigits(_, _)
\* the position after the digits starting at i
ScanDigits(s, i) == IF i <= Len(s) /\ s[i] \in Digits THEN ScanDigits(s, i + 1) ELSE i

RECURSIVE ScanString(_, _)
\* i is the position after the opening quote, or inside the string
ScanString(s, i) ==
    IF i > Len(s) THEN 0
    ELSE IF s[i] = "\"" THEN i + 1
    ELSE IF s[i] = "\\"
         THEN IF i + 1 > Len(s) THEN 0
              ELSE IF s[i + 1] \in {"\"", "\\", "/", "b", "f", "n", "r", "t"}
                   THEN ScanString(s, i + 2)
              ELSE IF s[i + 1] = "u" /\ i + 5 <= Len(s)
                      /\ \A k \in (i + 2)..(i + 5) : s[k] \in HexDigits
                   THEN ScanString(s, i + 6)
              ELSE 0
    ELSE IF s[i] \in {"\t", "\n", "\r"} THEN 0
    ELSE ScanString(s, i + 1)

ScanNumber(s, i) ==
    LET a == IF s[i] = "-" THEN i + 1 ELSE i
        b == IF a > Len(s) \/ s[a] \notin Digits THEN 0
             ELSE IF s[a] = "0" THEN a + 1
             ELSE ScanDigits(s, a)
        c == IF b = 0 THEN 0
             ELSE IF b <= Len(s) /\ s[b] = "."
                  THEN (IF ScanDigits(s, b + 1) = b + 1 THEN 0 ELSE ScanDigits(s, b + 1))
             ELSE b
        d == IF c = 0 THEN 0
             ELSE IF c <= Len(s) /\ s[c] \in {"e", "E"}
                  THEN LET e == IF c + 1 <= Len(s) /\ s[c + 1] \in {"+", "-"}
                                THEN c + 2 ELSE c + 1
                       IN  IF ScanDigits(s, e) = e THEN 0 ELSE ScanDigits(s, e)
             ELSE c
    IN  d

ScanLiteral(s, i, lit) ==
    IF i + Len(lit) - 1 <= Len(s) /\ SubSeq(s, i, i + Len(lit) - 1) = lit
    THEN i + Len(lit) ELSE 0

RECURSIVE ScanValue(_, _)
RECURSIVE ScanElements(_, _)
RECURSIVE ScanMembers(_, _)

\* i is the position of the first character of a value
ScanValue(s, i) ==
    IF i > Len(s) THEN 0
    ELSE CASE s[i] = "{" ->
                  (LET j == SkipWS(s, i + 1)
                   IN  IF j <= Len(s) /\ s[j] = "}" THEN j + 1 ELSE ScanMembers(s, j))
           [] s[i] = "[" ->
                  (LET j == SkipWS(s, i + 1)
                   IN  IF j <= Len(s) /\ s[j] = "]" THEN j + 1 ELSE ScanElements(s, j))
           [] s[i] = "\"" -> ScanString(s, i + 1)
           [] s[i] = "-" \/ s[i] \in Digits -> ScanNumber(s, i)
           [] s[i] = "t" -> ScanLiteral(s, i, <<"t", "r", "u", "e">>)
           [] s[i] = "f" -> ScanLiteral(s, i, <<"f", "a", "l", "s", "e">>)
           [] s[i] = "n" -> ScanLiteral(s, i, <<"n", "u", "l", "l">>)
           [] OTHER -> 0

\* the elements of an array from the element at i to the closing bracket
ScanElements(s, i) ==
    LET v == ScanValue(s, i)
        j == SkipWS(s, v)
    IN  IF v = 0 \/ j > Len(s) THEN 0
        ELSE IF s[j] = "]" THEN j + 1
        ELSE IF s[j] = "," THEN ScanElements(s, SkipWS(s, j + 1))
        ELSE 0

\* the members of an object from the key at i to the closing brace
ScanMembers(s, i) ==
    LET k == IF i <= Len(s) /\ s[i] = "\"" THEN ScanString(s, i + 1) ELSE 0
        c == SkipWS(s, k)
        v == IF k = 0 \/ c > Len(s) \/ s[c] # ":" THEN 0
             ELSE ScanValue(s, SkipWS(s, c + 1))
        j == SkipWS(s, v)
    IN  IF v = 0 \/ j > Len(s) THEN 0
        ELSE IF s[j] = "}" THEN j + 1
        ELSE IF s[j] = "," THEN ScanMembers(s, SkipWS(s, j + 1))
        ELSE 0

\* isJSON: json.Unmarshal([]byte(str), &js) == nil
isJSON(str) ==
    LET v == ScanValue(str, SkipWS(str, 1))
    IN  v # 0 /\ SkipWS(str, v) = Len(str) + 1

\* formatAnyValue, for a payload that is an error or a string
formatAnyValue(value) ==
    IF value.type = "error" THEN value
    ELSE IF value.type = "string" /\ isJSON(value.chars)
         THEN [type |-> "json.RawMessage", chars |-> value.chars]
    ELSE value

RECURSIVE FmtBytes(_)
\* the bytes of a byte slice in decimal, separated by spaces
FmtBytes(cs) ==
    IF cs = <<>> THEN <<>>
    ELSE Decimal(Byte(Head(cs)))
         \o (IF Tail(cs) = <<>> THEN <<>> ELSE <<" ">> \o FmtBytes(Tail(cs)))

\* Fprintf's %v of what formatAnyValue returned: a string is printed as it
\* is, an error as its message, a json.RawMessage (a []byte without a String
\* method) as the list of its bytes
FmtV(x) ==
    IF x.type = "json.RawMessage" THEN <<"[">> \o FmtBytes(x.chars) \o <<"]">>
    ELSE x.chars

\* formatValue followed by the %v that prints it
formatValue(v) ==
    CASE v.kind = "String" -> <<v.str>>
      [] v.kind = "Int64" -> Decimal(v.num)
      [] v.kind = "Any" -> FmtV(formatAnyValue(v.any))
      [] OTHER -> <<>>

\* formatAnyValue called with the string str and its result printed with %v,
\* as processAttr prints a value; argument and text are kept in last
FormatAnyCall(str) ==
    /\ last' = [op |-> "formatAnyValue", recv |-> 0, new |-> 0, fn |-> NIL,
                arg |-> str, json |-> isJSON(str),
                text |-> FmtV(formatAnyValue(StringPayload(str)))]
    /\ UNCHANGED <<handlers, mu, gheap, aheap, sink, writing, pc, call, buf, ret,
                   chain, hist, ncalls, used, written>>

\* the hook condition with > in place of >=
HookDueAboveError(fn, r) == fn # NIL /\ r.Level > LevelError

\* the condition guarding the hook call
HookDue(fn, r) == fn # NIL /\ r.Level >= LevelError

RECURSIVE processAttr(_)
RECURSIVE processAttrs(_)

\* processAttr printing the key of a group attribute before its children
processAttrPrintsGroupKey(attr) ==
    IF attr.Value.kind = "Group"
    THEN <<" ", attr.Key, "=">> \o processAttrs(attr.Value.group)
    ELSE <<" ", attr.Key, "=">> \o formatValue(attr.Value)

\* what processAttr prints into the buffer: a group attribute prints its
\* children and nothing for itself, any other attribute prints " key=value"
processAttr(attr) ==
    IF attr.Value.kind = "Group" THEN processAttrs(attr.Value.group)
    ELSE <<" ", attr.Key, "=">> \o formatValue(attr.Value)

processAttrs(as) ==
    IF as = <<>> THEN <<>> ELSE processAttr(Head(as)) \o processAttrs(Tail(as))

RECURSIVE processAttrHeap(_, _, _)
RECURSIVE processAttrsHeap(_, _, _)

\* what processAttr does to the groups heap: a group attribute makes a
\* temporary handler whose groups are append(h.groups[:len:len], attr.Key),
\* and processes its children through it
processAttrHeap(heap, groups, attr) ==
    IF attr.Value.kind = "Group"
    THEN LET g == SliceAppend(heap, Clamp(groups), <<attr.Key>>, 0, "")
         IN  processAttrsHeap(g.heap, g.slice, attr.Value.group)
    ELSE heap

processAttrsHeap(heap, groups, as) ==
    IF as = <<>> THEN heap
    ELSE processAttrsHeap(processAttrHeap(heap, groups, Head(as)), groups, Tail(as))

RECURSIVE GroupPrefixInnermostFirst(_)
\* the group loop running from the last group to the first
GroupPrefixInnermostFirst(gs) ==
    IF gs = <<>> THEN <<>>
    ELSE GroupPrefixInnermostFirst(Tail(gs)) \o <<Head(gs), ".">>

RECURSIVE GroupPrefix(_)
\* the loop printing "%s." for every group
GroupPrefix(gs) == IF gs = <<>> THEN <<>> ELSE <<Head(gs), ".">> \o GroupPrefix(Tail(gs))

\* Handle printing the record's attrs before the handler's
FormatRecordAttrsFirst(hd, r) ==
    <<"[">> \o TimeOnly(r.Time) \o <<"] ">> \o <<LevelStr(r.Level), " ">>
    \o GroupPrefix(View(gheap, hd.groups)) \o <<r.Message>>
    \o processAttrs(r.attrs) \o processAttrs(View(aheap, hd.attrs))

\* the line Handle assembles in its buffer before taking the lock
Format(hd, r) ==
    <<"[">> \o TimeOnly(r.Time) \o <<"] ">> \o <<LevelStr(r.Level), " ">>
    \o GroupPrefix(View(gheap, hd.groups)) \o <<r.Message>>
    \o processAttrs(View(aheap, hd.attrs)) \o processAttrs(r.attrs)

\* the groups heap after Handle has assembled the line
FormatHeap(hd, r) ==
    processAttrsHeap(processAttrsHeap(gheap, hd.groups, View(aheap, hd.attrs)),
                     hd.groups, r.attrs)

\* the arrays formatting allocated belong to temporary handlers; they are
\* unreachable, hence reclaimed, once formatting is over
Collect(heap) == SubSeq(heap, 1, Len(gheap))

\* the bytes the sink's Write copies first, and the rest
FirstPart(line) == SubSeq(line, 1, Len(line) \div 2)
SecondPart(line) == SubSeq(line, (Len(line) \div 2) + 1, Len(line))

-----------------------------------------------------------------------------
(* Handle, statement by statement, as run by goroutine t *)

\* newBuffer(): an empty buffer no other call holds
newBuffer == <<>>

InFlight == {"hook", "hookcall", "inhook", "format", "lock", "write", "inwrite",
             "unlock"}

\* Handle is called: buf := newBuffer()
Enter(t, h, r) ==
    /\ pc[t] \notin InFlight
    /\ pc' = [pc EXCEPT ![t] = "hook"]
    /\ call' = [call EXCEPT ![t] = [h |-> h, r |-> r]]
    /\ buf' = [buf EXCEPT ![t] = newBuffer]
    /\ ret' = [ret EXCEPT ![t] = NIL]
    /\ hist' = [hist EXCEPT ![t] =
                 [NoHist EXCEPT !.hookWas = handlers[h].HookFn,
                                !.afterErr = \E u \in Threads :
                                    /\ pc[u] = "done" /\ call[u].h = h
                                    /\ ret[u] = "werr",
                                !.afterPanic = \E u \in Threads :
                                    /\ pc[u] = "panicked" /\ call[u].h = h
                                    /\ hist[u].hookPanic]]
    /\ ncalls' = ncalls + 1
    /\ used' = used \cup {h}
    /\ UNCHANGED <<handlers, mu, gheap, aheap, sink, writing, chain, last, written>>

\* Handle taking the mutex before it looks at the hook
HookCheckTakingLock(t) ==
    /\ pc[t] = "hook"
    /\ mu[call[t].h] = 0
    /\ mu' = [mu EXCEPT ![call[t].h] = t]
    /\ pc' = [pc EXCEPT ![t] =
                IF HookDue(handlers[call[t].h].HookFn, call[t].r) THEN "hookcall"
                ELSE "format"]
    /\ UNCHANGED <<handlers, gheap, aheap, sink, writing, call, buf, ret,
                   chain, hist, last, ncalls, used, written>>

\* if h.HookFn != nil && r.Level >= slog.LevelError
HookCheck(t) ==
    /\ pc[t] = "hook"
    /\ pc' = [pc EXCEPT ![t] =
                IF HookDue(handlers[call[t].h].HookFn, call[t].r) THEN "hookcall"
                ELSE "format"]
    /\ UNCHANGED <<handlers, mu, gheap, aheap, sink, writing, call, buf, ret,
                   chain, hist, last, ncalls, used, written>>

\* the hook call left out
HookCallDropped(t, panics) ==
    /\ pc[t] = "hookcall"
    /\ pc' = [pc EXCEPT ![t] = "format"]
    /\ UNCHANGED <<handlers, mu, gheap, aheap, sink, writing, call, buf, ret,
                   chain, hist, last, ncalls, used, written>>

\* the hook call wrapped in a recover(): a panic of the hook is swallowed
HookCallRecovered(t, panics) ==
    /\ pc[t] = "hookcall"
    /\ handlers[call[t].h].HookFn # NIL
    /\ hist' = [hist EXCEPT ![t].hooked = @ + 1, ![t].hookArg = call[t].r,
                            ![t].hookPanic = panics]
    /\ pc' = [pc EXCEPT ![t] = "format"]
    /\ UNCHANGED <<handlers, mu, gheap, aheap, sink, writing, call, buf, ret,
                   chain, last, ncalls, used, written>>

\* the call made on the hook the condition saw, the field not read again
HookCallOfCheckedValue(t, panics) ==
    /\ pc[t] = "hookcall"
    /\ hist' = [hist EXCEPT ![t].hooked = @ + 1, ![t].hookArg = call[t].r,
                            ![t].hookPanic = panics]
    /\ pc' = [pc EXCEPT ![t] = IF panics THEN "panicked" ELSE "format"]
    /\ ret' = [ret EXCEPT ![t] = IF panics THEN "panic" ELSE @]
    /\ buf' = [buf EXCEPT ![t] = <<>>]
    /\ UNCHANGED <<handlers, mu, gheap, aheap, sink, writing, call,
                   chain, last, ncalls, used, written>>

\* h.HookFn(ctx, r): the field is read again; calling a nil func panics, and a
\* panic of the hook is not recovered: the deferred buf.Free() runs and the
\* panic leaves Handle
HookCall(t, panics) ==
    /\ pc[t] = "hookcall"
    /\ IF handlers[call[t].h].HookFn = NIL
       THEN /\ pc' = [pc EXCEPT ![t] = "panicked"]
            /\ ret' = [ret EXCEPT ![t] = "panic"]
            /\ hist' = hist
       ELSE /\ hist' = [hist EXCEPT ![t].hooked = @ + 1, ![t].hookArg = call[t].r,
                                    ![t].hookPanic = panics]
            /\ pc' = [pc EXCEPT ![t] = IF panics THEN "panicked" ELSE "format"]
            /\ ret' = [ret EXCEPT ![t] = IF panics THEN "panic" ELSE @]
    /\ buf' = [buf EXCEPT ![t] = <<>>]
    /\ UNCHANGED <<handlers, mu, gheap, aheap, sink, writing, call,
                   chain, last, ncalls, used, written>>

\* h.HookFn(ctx, r) with a hook that dispatches the record r2 through the
\* same handler: goroutine t stays in the hook while the nested Handle runs,
\* in the frame u
HookDispatch(t, u, r2) ==
    /\ pc[t] = "hookcall"
    /\ handlers[call[t].h].HookFn # NIL
    /\ u # t
    /\ pc[u] \notin InFlight
    /\ pc' = [pc EXCEPT ![t] = "inhook", ![u] = "hook"]
    /\ call' = [call EXCEPT ![u] = [h |-> call[t].h, r |-> r2]]
    /\ buf' = [buf EXCEPT ![u] = newBuffer]
    /\ ret' = [ret EXCEPT ![u] = NIL]
    /\ hist' = [hist EXCEPT ![t].hooked = @ + 1, ![t].hookArg = call[t].r,
                            ![u] = [NoHist EXCEPT !.hookWas = handlers[call[t].h].HookFn,
                                                  !.inHookOf = t]]
    /\ ncalls' = ncalls + 1
    /\ UNCHANGED <<handlers, mu, gheap, aheap, sink, writing, chain, last, used,
                   written>>

\* the nested Handle has returned to the hook, and the hook returns; a panic
\* of the nested Handle goes on through the hook
HookReturn(t) ==
    /\ pc[t] = "inhook"
    /\ \E u \in Threads :
         /\ hist[u].inHookOf = t
         /\ pc[u] \in {"done", "panicked"}
         /\ pc' = [pc EXCEPT ![t] = IF pc[u] = "panicked" THEN "panicked" ELSE "format"]
         /\ ret' = [ret EXCEPT ![t] = IF pc[u] = "panicked" THEN "panic" ELSE @]
         /\ hist' = [hist EXCEPT ![t].hookPanic = (pc[u] = "panicked")]
    /\ buf' = [buf EXCEPT ![t] = <<>>]
    /\ UNCHANGED <<handlers, mu, gheap, aheap, sink, writing, call,
                   chain, last, ncalls, used, written>>

\* timestamp, level tag, groups, message, bound attrs, record attrs -> buf
FormatLine(t) ==
    /\ pc[t] = "format"
    /\ buf' = [buf EXCEPT ![t] = Format(handlers[call[t].h], call[t].r)]
    /\ gheap' = Collect(FormatHeap(handlers[call[t].h], call[t].r))
    /\ pc' = [pc EXCEPT ![t] = "lock"]
    /\ UNCHANGED <<handlers, mu, aheap, sink, writing, call, ret,
                   chain, hist, last, ncalls, used, written>>

\* Handle going on to the write without waiting for the mutex
LockWithoutWaiting(t) ==
    /\ pc[t] = "lock"
    /\ mu' = [mu EXCEPT ![call[t].h] = t]
    /\ pc' = [pc EXCEPT ![t] = "write"]
    /\ UNCHANGED <<handlers, gheap, aheap, sink, writing, call, buf, ret,
                   chain, hist, last, ncalls, used, written>>

\* h.mu.Lock(); defer h.mu.Unlock()
Lock(t) ==
    /\ pc[t] = "lock"
    /\ mu[call[t].h] = 0
    /\ mu' = [mu EXCEPT ![call[t].h] = t]
    /\ pc' = [pc EXCEPT ![t] = "write"]
    /\ UNCHANGED <<handlers, gheap, aheap, sink, writing, call, buf, ret,
                   chain, hist, last, ncalls, used, written>>

\* io.WriteString(buf, "\n"); h.Writer.Write(*buf): the sink either refuses
\* the write with an error, or starts copying the bytes
WriteBegin(t, ok) ==
    /\ pc[t] = "write"
    /\ buf' = [buf EXCEPT ![t] = @ \o <<"\n">>]
    /\ hist' = [hist EXCEPT ![t].writes = @ + 1,
                            ![t].hookedAtWrite = hist[t].hooked,
                            ![t].writeErr = IF ok THEN NIL ELSE "werr",
                            ![t].lineNo = IF ok THEN Len(written) + 1 ELSE 0]
    /\ IF ok
       THEN /\ sink' = sink \o FirstPart(buf'[t])
            /\ writing' = writing \cup {t}
            /\ written' = Append(written, call[t])
            /\ pc' = [pc EXCEPT ![t] = "inwrite"]
       ELSE /\ UNCHANGED <<sink, writing, written>>
            /\ pc' = [pc EXCEPT ![t] = "unlock"]
    /\ UNCHANGED <<handlers, mu, gheap, aheap, call, ret, chain, last, ncalls, used>>

\* the sink's Write copies the rest of the bytes and returns
WriteEnd(t) ==
    /\ pc[t] = "inwrite"
    /\ sink' = sink \o SecondPart(buf[t])
    /\ writing' = writing \ {t}
    /\ pc' = [pc EXCEPT ![t] = "unlock"]
    /\ UNCHANGED <<handlers, mu, gheap, aheap, call, buf, ret,
                   chain, hist, last, ncalls, used, written>>

\* an Unlock that is not deferred and is skipped on the error path
ReturnKeepsLockOnError(t) ==
    /\ pc[t] = "unlock"
    /\ mu' = IF hist[t].writeErr = NIL THEN [mu EXCEPT ![call[t].h] = 0] ELSE mu
    /\ ret' = [ret EXCEPT ![t] = hist[t].writeErr]
    /\ pc' = [pc EXCEPT ![t] = "done"]
    /\ buf' = [buf EXCEPT ![t] = <<>>]
    /\ UNCHANGED <<handlers, gheap, aheap, sink, writing, call,
                   chain, hist, last, ncalls, used, written>>

\* return err, running the deferred h.mu.Unlock() and buf.Free()
Return(t) ==
    /\ pc[t] = "unlock"
    /\ mu' = [mu EXCEPT ![call[t].h] = 0]
    /\ ret' = [ret EXCEPT ![t] = hist[t].writeErr]
    /\ pc' = [pc EXCEPT ![t] = "done"]
    /\ buf' = [buf EXCEPT ![t] = <<>>]
    /\ UNCHANGED <<handlers, gheap, aheap, sink, writing, call,
                   chain, hist, last, ncalls, used, written>>

\* Handle run from call to return by the goroutine of a sequential run
Handle(h, r, panics, ok) ==
    LET t == MainThread
        due == HookDue(handlers[h].HookFn, r)
        line == Format(handlers[h], r) \o <<"\n">>
        h0 == [NoHist EXCEPT !.hookWas = handlers[h].HookFn,
                             !.hooked = IF due THEN 1 ELSE 0,
                             !.hookArg = IF due THEN r ELSE @,
                             !.hookPanic = due /\ panics]
    IN
    /\ pc[t] \notin InFlight
    /\ mu[h] = 0
    /\ call' = [call EXCEPT ![t] = [h |-> h, r |-> r]]
    /\ used' = used \cup {h}
    /\ IF due /\ panics
       THEN /\ pc' = [pc EXCEPT ![t] = "panicked"]
            /\ ret' = [ret EXCEPT ![t] = "panic"]
            /\ hist' = [hist EXCEPT ![t] = h0]
            /\ buf' = [buf EXCEPT ![t] = <<>>]
            /\ UNCHANGED <<gheap, sink, written>>
       ELSE /\ pc' = [pc EXCEPT ![t] = "done"]
            /\ gheap' = Collect(FormatHeap(handlers[h], r))
            /\ buf' = [buf EXCEPT ![t] = <<>>]
            /\ sink' = IF ok THEN sink \o line ELSE sink
            /\ written' = IF ok THEN Append(written, [h |-> h, r |-> r]) ELSE written
            /\ hist' = [hist EXCEPT ![t] =
                         [h0 EXCEPT !.writes = 1, !.hookedAtWrite = h0.hooked,
                                    !.writeErr = IF ok THEN NIL ELSE "werr",
                                    !.lineNo = IF ok THEN Len(written) + 1 ELSE 0]]
            /\ ret' = [ret EXCEPT ![t] = IF ok THEN NIL ELSE "werr"]
    /\ UNCHANGED <<handlers, mu, aheap, writing, chain, last, ncalls>>

\* SetHook on a hook that a handler and the handlers derived from it share
SetHookShared(h, fn) ==
    /\ handlers' = [g \in 1..Len(handlers) |->
                      IF g = h \/ chain[g].parent = h
                      THEN [handlers[g] EXCEPT !.HookFn = fn] ELSE handlers[g]]
    /\ last' = [op |-> "SetHook", recv |-> h, new |-> 0, fn |-> fn]
    /\ UNCHANGED <<mu, gheap, aheap, sink, writing, pc, call, buf, ret,
                   chain, hist, ncalls, used, written>>

\* SetHook
SetHook(h, fn) ==
    /\ handlers' = [handlers EXCEPT ![h].HookFn = fn]
    /\ last' = [op |-> "SetHook", recv |-> h, new |-> 0, fn |-> fn]
    /\ UNCHANGED <<mu, gheap, aheap, sink, writing, pc, call, buf, ret,
                   chain, hist, ncalls, used, written>>

-----------------------------------------------------------------------------
Init ==
    /\ handlers = <<NewColorHandler>>
    /\ mu = <<0>>
    /\ gheap = <<>>
    /\ aheap = <<>>
    /\ sink = <<>>
    /\ writing = {}
    /\ pc = [t \in Threads |-> "idle"]
    /\ call = [t \in Threads |-> NoCall]
    /\ buf = [t \in Threads |-> <<>>]
    /\ ret = [t \in Threads |-> NIL]
    /\ chain = <<RootChain>>
    /\ hist = [t \in Threads |-> NoHist]
    /\ last = NoOp
    /\ ncalls = 0
    /\ used = {}
    /\ written = <<>>

Derive ==
    \E h \in 1..Len(handlers) :
        \/ \E name \in GroupNames, spare \in SpareChoices : WithGroup(h, name, spare)
        \/ \E as \in AttrArgs, spare \in SpareChoices : WithAttrs(h, as, spare)

\* A sequential run: one goroutine derives handlers, then dispatches one
\* record through one of them into a sink that accepts the write.
Next ==
    \/ /\ pc[MainThread] = "idle"
       /\ Len(handlers) < MaxHandlers
       /\ Derive
    \/ /\ pc[MainThread] = "idle"
       /\ \E h \in 1..Len(handlers), r \in SeqRecords : Handle(h, r, FALSE, TRUE)

Spec == Init /\ [][Next]_vars

-----------------------------------------------------------------------------
(* A concurrent run: the root handler h1, h2 = h1.WithAttrs(k=v) and        *)
(* h3 = h2.WithGroup("a"), all writing to the same sink; the goroutines of   *)
(* Threads dispatch through h1 and h3.  SetHook is called on a handler only  *)
(* while no Handle call on that handler is in flight.                        *)

ConcTargets == {1, 3}

InitConc ==
    LET a == WithAttrsSlice(<<>>, EmptySlice, <<AttrK1>>, 0)
        g == WithGroupSlice(<<>>, EmptySlice, "a", 0)
    IN
    /\ handlers = <<NewColorHandler,
                    [NewColorHandler EXCEPT !.attrs = a.slice],
                    [NewColorHandler EXCEPT !.attrs = a.slice, !.groups = g.slice]>>
    /\ mu = <<0, 0, 0>>
    /\ gheap = g.heap
    /\ aheap = a.heap
    /\ sink = <<>>
    /\ writing = {}
    /\ pc = [t \in Threads |-> "idle"]
    /\ call = [t \in Threads |-> NoCall]
    /\ buf = [t \in Threads |-> <<>>]
    /\ ret = [t \in Threads |-> NIL]
    /\ chain = <<RootChain,
                 [parent |-> 1, names |-> <<>>, args |-> <<AttrK1>>],
                 [parent |-> 2, names |-> <<"a">>, args |-> <<>>]>>
    /\ hist = [t \in Threads |-> NoHist]
    /\ last = NoOp
    /\ ncalls = 0
    /\ used = {}
    /\ written = <<>>

Quiescent(h) == \A t \in Threads : pc[t] \in InFlight => call[t].h # h

NextConc ==
    \/ \E h \in ConcTargets, fn \in Hooks :
        /\ Quiescent(h)
        /\ handlers[h].HookFn # fn
        /\ SetHook(h, fn)
    \/ \E t \in Threads, h \in ConcTargets, r \in ConcRecords :
        /\ ncalls < MaxCalls
        /\ Enter(t, h, r)
    \/ \E t \in Threads : HookCheck(t)
    \/ \E t \in Threads, panics \in BOOLEAN : HookCall(t, panics)
    \/ \E t \in Threads : FormatLine(t)
    \/ \E t \in Threads : Lock(t)
    \/ \E t \in Threads, ok \in BOOLEAN : WriteBegin(t, ok)
    \/ \E t \in Threads : WriteEnd(t)
    \/ \E t \in Threads : Return(t)

SpecConc == InitConc /\ [][NextConc]_vars

-----------------------------------------------------------------------------
(* A formatting run: on the handlers h1, h2, h3 above, one goroutine calls   *)
(* Enabled with any level, calls formatAnyValue with a string and prints the *)
(* result, and dispatches one record of any level, with or without group     *)
(* attributes, into a sink that accepts or refuses the write.                *)

NextFmt ==
    \/ /\ pc[MainThread] = "idle"
       /\ \E h \in 1..Len(handlers), r \in FmtRecords, ok \in BOOLEAN :
            Handle(h, r, FALSE, ok)
    \/ \E h \in 1..Len(handlers), level \in FmtLevels : EnabledCall(h, level)
    \/ /\ pc[MainThread] = "idle"
       /\ \E str \in AnyStrings : FormatAnyCall(str)

SpecFmt == InitConc /\ [][NextFmt]_vars

-----------------------------------------------------------------------------
(* What a handler's derivation history says it should hold *)

RECURSIVE ChainGroups(_)
ChainGroups(h) == IF h = 0 THEN <<>> ELSE ChainGroups(chain[h].parent) \o chain[h].names

RECURSIVE ChainAttrs(_)
ChainAttrs(h) == IF h = 0 THEN <<>> ELSE ChainAttrs(chain[h].parent) \o chain[h].args

RECURSIVE Leaves(_)
\* the non-group attributes of a sequence of attributes, depth first
Leaves(as) ==
    IF as = <<>> THEN <<>>
    ELSE (IF Head(as).Value.kind = "Group" THEN Leaves(Head(as).Value.group)
          ELSE <<Head(as)>>) \o Leaves(Tail(as))

RECURSIVE LeafText(_)
LeafText(ls) ==
    IF ls = <<>> THEN <<>>
    ELSE <<" ", Head(ls).Key, "=">> \o formatValue(Head(ls).Value) \o LeafText(Tail(ls))

\* number of tokens before the group prefix: "[", the time, "] ", the tag, " "
HeadLen(r) == Len(<<"[">> \o TimeOnly(r.Time) \o <<"] ", "TAG", " ">>)

SeqDone == pc[MainThread] = "done"
SeqH == call[MainThread].h
SeqR == call[MainThread].r

-----------------------------------------------------------------------------
(* C1: a WithGroup or WithAttrs call leaves its receiver's groups and attrs  *)
(* as they were, and with them the line the receiver renders for any record. *)
C1_DerivationLeavesReceiver ==
    [][\A h \in 1..Len(handlers) :
        (Len(handlers') > Len(handlers) /\ last'.recv = h) =>
            /\ Groups(h)' = Groups(h)
            /\ Attrs(h)' = Attrs(h)
            /\ \A r \in SeqRecords :
                 Format(handlers[h], r)' = Format(handlers[h], r)]_vars

\* a record was dispatched through a handler that has groups and attrs, after
\* that handler was the receiver of a derivation
C1_Witness ==
    /\ SeqDone
    /\ last.op \in {"WithGroup", "WithAttrs"}
    /\ last.recv = SeqH
    /\ Groups(SeqH) # <<>>
    /\ Attrs(SeqH) # <<>>
    /\ sink = Format(handlers[SeqH], SeqR) \o <<"\n">>

(* C2: every derived handler holds its receiver's sequence followed by what  *)
(* its own derivation appended, whatever was derived before or after it.     *)
C2_DerivedIsReceiverPlusArgument ==
    \A d \in 2..Len(handlers) :
        /\ Groups(d) = Groups(chain[d].parent) \o chain[d].names
        /\ Attrs(d) = Attrs(chain[d].parent) \o chain[d].args

\* two handlers derived by WithAttrs from a receiver whose slice has spare
\* capacity, with different attributes
C2_Witness ==
    \E d1, d2 \in 2..Len(handlers) :
        /\ d1 # d2
        /\ chain[d1].parent = chain[d2].parent
        /\ chain[d1].args # <<>>
        /\ chain[d2].args # <<>>
        /\ chain[d1].args # chain[d2].args
        /\ handlers[chain[d1].parent].attrs.cap > handlers[chain[d1].parent].attrs.len

(* C9: the line of a dispatch has, right after the level tag, the names of   *)
(* the WithGroup calls that made the handler, first call first, each         *)
(* followed by a dot, and then the message.                                  *)
C9_GroupPrefixIsChainOfNames ==
    SeqDone =>
        LET names == ChainGroups(SeqH)
            k == HeadLen(SeqR)
        IN  /\ Len(sink) > k + 2 * Len(names)
            /\ \A i \in 1..Len(names) :
                 /\ sink[k + 2 * i - 1] = names[i]
                 /\ sink[k + 2 * i] = "."
            /\ sink[k + 2 * Len(names) + 1] = SeqR.Message

\* a dispatch through root.WithGroup(x).WithAttrs(..).WithGroup(y), x # y
C9_Witness ==
    /\ SeqDone
    /\ chain[SeqH].names # <<>>
    /\ chain[SeqH].parent # 0
    /\ chain[chain[SeqH].parent].args # <<>>
    /\ Len(ChainGroups(SeqH)) = 2
    /\ ChainGroups(SeqH)[1] # ChainGroups(SeqH)[2]

(* C10: after the message the line has the attributes of the handler's       *)
(* WithAttrs calls, in call order and argument order, then the record's, in  *)
(* the record's order, each leaf as " key=value", and then the newline.      *)
C10_AttrsInBindingThenRecordOrder ==
    SeqDone =>
        LET m == HeadLen(SeqR) + 2 * Len(Groups(SeqH)) + 1
        IN  SubSeq(sink, m + 1, Len(sink)) =
                LeafText(Leaves(ChainAttrs(SeqH)) \o Leaves(SeqR.attrs)) \o <<"\n">>

\* a dispatch through root.WithAttrs(x).WithGroup(..).WithAttrs(y) of a
\* record two of whose attributes have the same key
C10_Witness ==
    /\ SeqDone
    /\ chain[SeqH].args # <<>>
    /\ chain[SeqH].parent # 0
    /\ chain[chain[SeqH].parent].names # <<>>
    /\ Len(ChainAttrs(SeqH)) > Len(chain[SeqH].args)
    /\ \E i, j \in DOMAIN SeqR.attrs : i < j /\ SeqR.attrs[i].Key = SeqR.attrs[j].Key

-----------------------------------------------------------------------------
LineOf(c) == Format(handlers[c.h], c.r) \o <<"\n">>

RECURSIVE Lines(_)
Lines(cs) == IF cs = <<>> THEN <<>> ELSE LineOf(Head(cs)) \o Lines(Tail(cs))

Newlines(tokens) == Cardinality({i \in DOMAIN tokens : tokens[i] = "\n"})

Due(t) == hist[t].hookWas # NIL /\ call[t].r.Level >= LevelError

(* C3: no two goroutines are inside the shared sink's Write at once.         *)
C3_SinkWritesExclusive == Cardinality(writing) <= 1

(* C4: when every Handle call was made on one handler, the sink holds the    *)
(* whole lines of the calls it accepted, one after the other, each call's    *)
(* line once; with every goroutine's one call returned without error, there  *)
(* are as many newlines as calls.                                            *)
C4_OneHandlerWholeLines ==
    Cardinality(used) <= 1 =>
        /\ IF writing = {} THEN sink = Lines(written)
           ELSE sink = Lines(SubSeq(written, 1, Len(written) - 1))
                       \o FirstPart(LineOf(written[Len(written)]))
        /\ \A t \in Threads :
             (pc[t] \in {"unlock", "done"} /\ hist[t].writes = 1 /\ hist[t].writeErr = NIL)
                => /\ hist[t].lineNo \in 1..Len(written)
                   /\ written[hist[t].lineNo] = call[t]
        /\ \A t, u \in Threads :
             (t # u /\ hist[t].lineNo # 0) => hist[t].lineNo # hist[u].lineNo
        /\ ((\A t \in Threads : pc[t] = "done" /\ ret[t] = NIL)
                /\ ncalls = Cardinality(Threads))
             => Newlines(sink) = ncalls

\* one goroutine has written its line and still holds the handler's lock,
\* another waits for the same lock
C4_Witness ==
    \E t, u \in Threads :
        /\ Cardinality(used) = 1
        /\ pc[t] = "unlock" /\ hist[t].writeErr = NIL
        /\ pc[u] = "lock"
        /\ sink = LineOf(call[t])

(* C5: a dispatch calls the hook once when the handler had a hook and the    *)
(* level is Error or above, and not at all otherwise; a dispatch that owes   *)
(* no hook call does not panic.                                              *)
C5_HookExactlyWhenDue ==
    \A t \in Threads :
        /\ hist[t].hooked <= 1
        /\ pc[t] \in {"format", "lock", "write", "inwrite", "unlock", "done", "panicked"}
             => hist[t].hooked = (IF Due(t) THEN 1 ELSE 0)
        /\ pc[t] = "panicked" => Due(t)

\* one dispatch above Error (tag ???) has called the hook; another, at Error,
\* through a handler whose hook SetHook(nil) has just removed, returned nil
\* without a hook call
C5_Witness ==
    \E t, u \in Threads :
        /\ pc[t] = "done" /\ call[t].r.Level > LevelError
        /\ LevelStr(call[t].r.Level) = "???"
        /\ hist[t].hooked = 1
        /\ pc[u] = "done" /\ call[u].r.Level = LevelError
        /\ last.op = "SetHook" /\ last.fn = NIL /\ last.recv = call[u].h
        /\ hist[u].hooked = 0 /\ ret[u] = NIL

(* C6: when a dispatch that owes a hook call reaches the sink's Write, the   *)
(* hook has been called with the dispatched record and has returned; this    *)
(* does not depend on what the Write returns.                                *)
C6_HookBeforeWrite ==
    \A t \in Threads :
        (hist[t].writes >= 1 /\ Due(t)) =>
            /\ hist[t].hookedAtWrite = 1
            /\ hist[t].hookArg = call[t].r
            /\ ~hist[t].hookPanic

\* a dispatch whose hook was called and whose write then failed
C6_Witness ==
    \E t \in Threads :
        /\ pc[t] = "done" /\ ret[t] = "werr"
        /\ hist[t].hooked = 1 /\ hist[t].hookedAtWrite = 1

(* C7: Handle returns what its one Write returned, and a goroutine holds a   *)
(* handler's lock only between Lock and its return, error or not.            *)
C7_WriteErrorReturnedLockReleased ==
    \A t \in Threads :
        /\ pc[t] = "done" => (ret[t] = hist[t].writeErr /\ hist[t].writes = 1)
        /\ hist[t].writes <= 1
        /\ \A h \in 1..Len(handlers) :
             mu[h] = t => (pc[t] \in {"write", "inwrite", "unlock"} /\ call[t].h = h)

\* a dispatch returned the sink's error; a later dispatch on the same handler
\* took the lock, wrote its line and returned nil
C7_Witness ==
    \E t, u \in Threads :
        /\ pc[u] = "done" /\ ret[u] = "werr"
        /\ pc[t] = "done" /\ ret[t] = NIL /\ hist[t].afterErr
        /\ call[t].h = call[u].h
        /\ hist[t].lineNo > 0

(* C8: a panic of the hook leaves Handle as a panic, with no Write attempted *)
(* for the record and no lock held by the panicking goroutine.               *)
C8_HookPanicPropagates ==
    \A t \in Threads :
        hist[t].hookPanic =>
            /\ pc[t] = "panicked"
            /\ ret[t] = "panic"
            /\ hist[t].writes = 0
            /\ hist[t].lineNo = 0
            /\ \A h \in 1..Len(handlers) : mu[h] # t

\* the hook panicked in one dispatch; a later dispatch on the same handler
\* wrote its line and returned nil
C8_Witness ==
    \E t, u \in Threads :
        /\ pc[t] = "panicked" /\ hist[t].hookPanic
        /\ pc[u] = "done" /\ ret[u] = NIL /\ hist[u].afterPanic
        /\ call[u].h = call[t].h
        /\ hist[u].lineNo > 0

-----------------------------------------------------------------------------
(* A configuration run: one goroutine derives handlers and sets hooks in any *)
(* order, then dispatches one record at Error through one of the handlers.   *)

HookRecords == { Record(LevelError, "m2", <<>>) }

NextHook ==
    \/ /\ pc[MainThread] = "idle"
       /\ Len(handlers) < MaxHandlers
       /\ \E h \in 1..Len(handlers) :
            \/ WithGroup(h, "a", 0)
            \/ WithAttrs(h, <<AttrK1>>, 0)
    \/ /\ pc[MainThread] = "idle"
       /\ \E h \in 1..Len(handlers), fn \in Hooks :
            /\ handlers[h].HookFn # fn
            /\ SetHook(h, fn)
    \/ /\ pc[MainThread] = "idle"
       /\ \E h \in 1..Len(handlers), r \in HookRecords : Handle(h, r, FALSE, TRUE)

SpecHook == Init /\ [][NextHook]_vars

-----------------------------------------------------------------------------
(* A run with unsynchronized configuration: as the concurrent run, but       *)
(* SetHook is called at any moment, also on a handler whose Handle is in     *)
(* flight.  The racing read of the one-word HookFn field sees the value      *)
(* before or after the write, which is what the interleaving gives.          *)

RaceRecords == { Record(LevelWarn, "m1", <<>>), Record(LevelError, "m2", <<>>) }

NextRace ==
    \/ \E h \in ConcTargets, fn \in Hooks :
        /\ handlers[h].HookFn # fn
        /\ SetHook(h, fn)
    \/ \E t \in Threads, h \in ConcTargets, r \in RaceRecords :
        /\ ncalls < MaxCalls
        /\ Enter(t, h, r)
    \/ \E t \in Threads : HookCheck(t)
    \/ \E t \in Threads, panics \in BOOLEAN : HookCall(t, panics)
    \/ \E t \in Threads : FormatLine(t)
    \/ \E t \in Threads : Lock(t)
    \/ \E t \in Threads, ok \in BOOLEAN : WriteBegin(t, ok)
    \/ \E t \in Threads : WriteEnd(t)
    \/ \E t \in Threads : Return(t)

SpecRace == InitConc /\ [][NextRace]_vars

-----------------------------------------------------------------------------
(* A scheduled run: hooks are set before the first dispatch; the goroutines  *)
(* dispatch concurrently, or one of them dispatches and its hook dispatches  *)
(* a record through the same handler.  Every goroutine inside Handle is      *)
(* eventually scheduled, a hook that is running returns, a Write that has    *)
(* begun returns, and sync.Mutex hands the lock to a goroutine that keeps    *)
(* waiting for it (its starvation mode).                                     *)

NoHookRunning == \A v \in Threads : pc[v] # "inhook"

\* the records the goroutines dispatch, and the records a hook dispatches
LiveRecords == { Record(LevelError, "m2", <<>>) }
HookLogRecords == { Record(LevelWarn, "m1", <<>>) }

NextLive ==
    \/ \E h \in ConcTargets, fn \in Hooks :
        /\ ncalls = 0
        /\ handlers[h].HookFn # fn
        /\ SetHook(h, fn)
    \/ \E t \in Threads, h \in ConcTargets, r \in LiveRecords :
        /\ ncalls < MaxCalls
        /\ NoHookRunning
        /\ Enter(t, h, r)
    \/ \E t \in Threads : HookCheck(t)
    \/ \E t \in Threads, panics \in BOOLEAN : HookCall(t, panics)
    \/ \E t, u \in Threads, r \in HookLogRecords :
        /\ ncalls < MaxCalls
        /\ HookDispatch(t, u, r)
    \/ \E t \in Threads : HookReturn(t)
    \/ \E t \in Threads : FormatLine(t)
    \/ \E t \in Threads : Lock(t)
    \/ \E t \in Threads, ok \in BOOLEAN : WriteBegin(t, ok)
    \/ \E t \in Threads : WriteEnd(t)
    \/ \E t \in Threads : Return(t)

Fairness ==
    \A t \in Threads :
        /\ WF_vars(HookCheck(t))
        /\ WF_vars(\E panics \in BOOLEAN : HookCall(t, panics))
        /\ WF_vars(HookReturn(t))
        /\ WF_vars(FormatLine(t))
        /\ SF_vars(Lock(t))
        /\ WF_vars(\E ok \in BOOLEAN : WriteBegin(t, ok))
        /\ WF_vars(WriteEnd(t))
        /\ WF_vars(Return(t))

SpecLive == InitConc /\ [][NextLive]_vars /\ Fairness

-----------------------------------------------------------------------------
RECURSIVE GroupKeys(_)
\* the keys of the group attributes of a sequence of attributes, at any depth
GroupKeys(as) ==
    IF as = <<>> THEN {}
    ELSE (IF Head(as).Value.kind = "Group"
          THEN {Head(as).Key} \cup GroupKeys(Head(as).Value.group)
          ELSE {}) \cup GroupKeys(Tail(as))

\* the tokens of the sink after the message, the newline left out
AttrTokens == SubSeq(sink, HeadLen(SeqR) + 2 * Len(Groups(SeqH)) + 2, Len(sink) - 1)

SeqWritten == SeqDone /\ hist[MainThread].writeErr = NIL

(* C11: a group attribute of the record, nested or not, is rendered as its   *)
(* leaves only, depth first in input order, each as " key=value"; no key of  *)
(* a group is followed by "="; a group without children renders nothing; the *)
(* groups of every handler are after the dispatch what its derivation made.  *)
C11_GroupAttrRendersLeavesOnly ==
    /\ SeqWritten =>
          /\ AttrTokens = LeafText(Leaves(Attrs(SeqH))) \o LeafText(Leaves(SeqR.attrs))
          /\ \A i \in 2..Len(AttrTokens) :
               AttrTokens[i] = "=" => AttrTokens[i - 1] \notin GroupKeys(SeqR.attrs)
          /\ Cardinality({i \in DOMAIN AttrTokens : AttrTokens[i] = "="})
               = Len(Leaves(Attrs(SeqH))) + Len(Leaves(SeqR.attrs))
    /\ \A h \in 1..Len(handlers) :
          /\ Groups(h) = ChainGroups(h)
          /\ handlers[h].groups.len = Len(ChainGroups(h))

\* a record with a group nested in a group and a group without children was
\* dispatched through the handler that has a group of its own
C11_Witness ==
    /\ SeqWritten
    /\ Groups(SeqH) # <<>>
    /\ \E i \in DOMAIN SeqR.attrs :
         /\ SeqR.attrs[i].Value.kind = "Group"
         /\ \E j \in DOMAIN SeqR.attrs[i].Value.group :
              /\ SeqR.attrs[i].Value.group[j].Value.kind = "Group"
              /\ AttrEmpty \in {SeqR.attrs[i].Value.group[j].Value.group[n] :
                                  n \in DOMAIN SeqR.attrs[i].Value.group[j].Value.group}
    /\ Len(AttrTokens) > 0

\* the tag of each canonical level
CanonicalTag == (LevelDebug :> "DBG") @@ (LevelInfo :> "INF")
                @@ (LevelWarn :> "WRN") @@ (LevelError :> "ERR")

\* the position of the level tag in a line
TagPos(r) == HeadLen(r) - 1

(* C12: the tag of a written line is DBG, INF, WRN, ERR for the levels       *)
(* Debug, Info, Warn, Error and ??? for every other level; a dispatch        *)
(* returns an error only when the sink's Write returned it, whatever the     *)
(* level, and otherwise its line is in the sink.                             *)
C12_LevelTagTotal ==
    SeqDone =>
        /\ ret[MainThread] = hist[MainThread].writeErr
        /\ SeqWritten =>
              /\ sink[TagPos(SeqR)] =
                    (IF SeqR.Level \in DOMAIN CanonicalTag THEN CanonicalTag[SeqR.Level]
                     ELSE "???")
              /\ sink[Len(sink)] = "\n"
              /\ sink[HeadLen(SeqR) + 2 * Len(Groups(SeqH)) + 1] = SeqR.Message

\* a record of a level between Info and Warn was dispatched without error and
\* its line has the tag ???
C12_Witness ==
    /\ SeqWritten
    /\ SeqR.Level > LevelInfo /\ SeqR.Level < LevelWarn
    /\ ret[MainThread] = NIL
    /\ sink[TagPos(SeqR)] = "???"

C13_IsJSONAsTested ==
    last.op = "formatAnyValue" =>
        last.json = (last.arg \in { <<"{", "\"", "k", "e", "y", "\"", ":", "\"", "v", "a", "l", "u", "e", "\"", "}">>,
                               <<"4", "2">>,
                               <<"\"", "h", "e", "l", "l", "o", "\"">>,
                               <<"[", "1", ",", "2", ",", "3", "]">>,
                               <<"{", "\"", "a", "\"", ":", "1", "}">>,
                               <<"t", "r", "u", "e">>,
                               <<" ", "7", " ">>,
                               <<"1", ".", "5", "e", "3">>,
                               <<"\"", "a", "\\", "n", "\"">> })

(* C14: every call of Enabled returns true, whatever the handler and the     *)
(* level, and changes nothing of the handlers, their slices or the sink.     *)
C14_EnabledAlwaysTrue ==
    /\ [](last.op = "Enabled" => last.result = TRUE)
    /\ [][(last'.op = "Enabled" /\ last' # last) =>
             UNCHANGED <<handlers, mu, gheap, aheap, sink, writing, pc, call, buf, ret>>]_vars

\* Enabled was called with a level below Debug on a derived handler, after a
\* dispatch
C14_Witness ==
    /\ last.op = "Enabled"
    /\ last.level < LevelDebug
    /\ last.recv > 1
    /\ last.result = TRUE
    /\ SeqDone

-----------------------------------------------------------------------------
(* C15: a SetHook call changes the hook of the handler it is called on and   *)
(* nothing else of any handler, of the slices or of the sink; a derivation   *)
(* gives the new handler the hook its receiver has at that moment and leaves *)
(* the hooks of all existing handlers as they are.                           *)
C15_SetHookChangesOneHandler ==
    [][/\ (last'.op = "SetHook" /\ (last' # last \/ handlers' # handlers)) =>
            /\ handlers' = [handlers EXCEPT ![last'.recv].HookFn = last'.fn]
            /\ UNCHANGED <<gheap, aheap, sink, mu>>
            /\ \A g \in 1..Len(handlers) : Groups(g)' = Groups(g) /\ Attrs(g)' = Attrs(g)
       /\ Len(handlers') > Len(handlers) =>
            /\ handlers'[Len(handlers')].HookFn = handlers[last'.recv].HookFn
            /\ \A g \in 1..Len(handlers) : handlers'[g].HookFn = handlers[g].HookFn]_vars

\* a handler was derived from a receiver with a hook, the receiver's hook was
\* then removed, and a dispatch through the derived handler called the hook
C15_Witness ==
    /\ SeqDone
    /\ chain[SeqH].parent # 0
    /\ handlers[chain[SeqH].parent].HookFn = NIL
    /\ last.op = "SetHook" /\ last.recv = chain[SeqH].parent /\ last.fn = NIL
    /\ handlers[SeqH].HookFn = HOOK
    /\ hist[MainThread].hooked = 1
    /\ \E d \in 1..Len(handlers) : chain[d].parent = SeqH /\ handlers[d].HookFn = NIL

(* C16: a goroutine holds no lock while it checks and calls the hook, and    *)
(* the call reads the hook field again: when the field is nil at the call,   *)
(* the dispatch that passed the check panics on the nil hook without having  *)
(* called any hook; otherwise it calls the hook the field then holds.        *)
C16_HookReadTwiceUnlocked ==
    /\ [](\A t \in Threads :
            pc[t] \in {"hook", "hookcall"} => \A h \in 1..Len(handlers) : mu[h] # t)
    /\ [][\A t \in Threads :
            (pc[t] = "hookcall" /\ pc'[t] # "hookcall") =>
                IF handlers[call[t].h].HookFn = NIL
                THEN /\ pc'[t] = "panicked"
                     /\ hist'[t].hooked = 0
                     /\ ~hist'[t].hookPanic
                ELSE hist'[t].hooked = 1]_vars

\* a dispatch at Error passed the check while the handler had a hook,
\* SetHook(nil) then ran on that handler, and the dispatch panicked calling
\* the nil hook
C16_Witness ==
    \E t \in Threads :
        /\ pc[t] = "panicked"
        /\ call[t].r.Level >= LevelError
        /\ hist[t].hooked = 0
        /\ ~hist[t].hookPanic
        /\ handlers[call[t].h].HookFn = NIL
        /\ last.op = "SetHook" /\ last.recv = call[t].h /\ last.fn = NIL

(* C17: a goroutine holds no handler's lock while it checks the hook, while  *)
(* the hook runs and while it assembles the line; and every Handle call that *)
(* has started returns (or ends with the panic of its hook), also when the   *)
(* hook dispatches through the same handler and when two goroutines contend  *)
(* for one handler's lock.                                                   *)
C17_LockOnlyAroundWrite ==
    /\ [](\A t \in Threads :
            pc[t] \in {"hook", "hookcall", "inhook", "format", "lock"}
                => \A h \in 1..Len(handlers) : mu[h] # t)
    /\ \A t \in Threads : (pc[t] \in InFlight) ~> (pc[t] \in {"done", "panicked"})

\* the hook of a dispatch dispatched a record through the same handler; the
\* nested line and then the outer line were written, and both calls returned
C17_Witness ==
    \E t, u \in Threads :
        /\ hist[u].inHookOf = t
        /\ call[u].h = call[t].h
        /\ pc[u] = "done" /\ ret[u] = NIL
        /\ pc[t] = "done" /\ ret[t] = NIL
        /\ hist[u].lineNo = 1 /\ hist[t].lineNo = 2
        /\ sink = LineOf(call[u]) \o LineOf(call[t])
====
